---- MODULE Spec2Model ----
(***************************************************************************)
(* Model of the pulp_tofu sync task (app/tasks/synchronizing.py) and of    *)
(* the viewset that dispatches it (app/viewsets.py).                       *)
(*                                                                         *)
(* Text is a sequence of characters; a character is a one-letter string,   *)
(* except for a few fixed words ("https", ".well-known/terraform.json",    *)
(* version numbers) that are kept as one element.  A nullable attribute is *)
(* an option: <<>> is Python's None and <<x>> is the value x.              *)
(*                                                                         *)
(* The task reads remote.includes and remote.excludes and builds           *)
(* TofuContent units; app/models.py declares neither the two attributes    *)
(* nor that model.  The model takes the attributes as the task reads them  *)
(* (`or []`, lines 174 and 190) and identifies a unit by namespace, name,  *)
(* system and version.  What DeclarativeVersion does with the emitted      *)
(* content (artifact download, association, new repository version) is     *)
(* the platform's part of synchronize(), modelled at its call (line 45).   *)
(*                                                                         *)
(* Spec is one sync of a new repository, SpecResync repeated syncs with a  *)
(* registry that may change in between, SpecMatch the calls of             *)
(* _is_excluded() on a wider set of exclude lists, SpecStage the sync of   *)
(* Spec for the properties of its requests and records, SpecPublish a sync *)
(* together with the publish task (app/tasks/publishing.py) and the        *)
(* action that adds Provider units to the repository, SpecOrder syncs of   *)
(* a repository whose remote gets another include list in between, and     *)
(* SpecTasks the sync and publish tasks of several repositories under a    *)
(* dispatcher that honours their reserved resources.                       *)
(***************************************************************************)
EXTENDS Integers, Sequences, FiniteSets, TLC

(***************************************************************************)
(* Bounds of the model.                                                    *)
(***************************************************************************)
MaxIncludes == 2
MaxExcludes == 1
MaxSyncs == 2
MaxChanges == 1
MaxPatterns == 2
MaxTasks == 3

(***************************************************************************)
(* Text helpers (Python str methods used by the code).                     *)
(***************************************************************************)
None == <<>>

Some(x) == <<x>>

\* Python truthiness of an optional text or list: None and the empty value are falsy.
Falsy(opt) == opt = None \/ opt[1] = <<>>

\* `x or []`
OrEmpty(opt) == IF Falsy(opt) THEN <<>> ELSE opt[1]

startswith(s, prefix) ==
    /\ Len(prefix) <= Len(s)
    /\ SubSeq(s, 1, Len(prefix)) = prefix

endswith(s, suffix) ==
    /\ Len(suffix) <= Len(s)
    /\ SubSeq(s, Len(s) - Len(suffix) + 1, Len(s)) = suffix

\* Index of the first occurrence of character c in s at or after position i, 0 when absent.
RECURSIVE find(_, _, _)
find(s, c, i) ==
    IF i > Len(s) THEN 0
    ELSE IF s[i] = c THEN i
    ELSE find(s, c, i + 1)

\* str.split("/"): the list of the parts between the slashes (never empty).
RECURSIVE split(_)
split(s) ==
    LET i == find(s, "/", 1)
    IN  IF i = 0 THEN <<s>>
        ELSE <<SubSeq(s, 1, i - 1)>> \o split(SubSeq(s, i + 1, Len(s)))

\* "/".join of three parts.
join3(a, b, c) == a \o <<"/">> \o b \o <<"/">> \o c

(***************************************************************************)
(* fnmatch.fnmatch(name, pat) on POSIX (normcase is the identity there):   *)
(* "*" matches any run of characters, "/" included, "?" one character,     *)
(* "[seq]" one character of seq, "[!seq]" one character not in seq; a "["  *)
(* without a closing "]" is a literal.                                     *)
(***************************************************************************)
\* Position of the "]" that closes the class opened at pat[i], 0 when there is none.
ClassEnd(pat, i) ==
    LET j1 == IF i + 1 <= Len(pat) /\ pat[i + 1] = "!" THEN i + 2 ELSE i + 1
        j2 == IF j1 <= Len(pat) /\ pat[j1] = "]" THEN j1 + 1 ELSE j1
    IN  find(pat, "]", j2)

ClassMatches(pat, i, j, c) ==
    LET neg == pat[i + 1] = "!"
        from == IF neg THEN i + 2 ELSE i + 1
        inside == \E k \in from..(j - 1) : pat[k] = c
    IN  IF neg THEN ~inside ELSE inside

RECURSIVE fnmatch(_, _)
fnmatch(name, pat) ==
    IF pat = <<>> THEN name = <<>>
    ELSE IF Head(pat) = "*"
        THEN \/ fnmatch(name, Tail(pat))
             \/ name # <<>> /\ fnmatch(Tail(name), pat)
    ELSE IF Head(pat) = "?"
        THEN name # <<>> /\ fnmatch(Tail(name), Tail(pat))
    ELSE IF Head(pat) = "[" /\ ClassEnd(pat, 1) # 0
        THEN /\ name # <<>>
             /\ ClassMatches(pat, 1, ClassEnd(pat, 1), Head(name))
             /\ fnmatch(Tail(name), SubSeq(pat, ClassEnd(pat, 1) + 1, Len(pat)))
    ELSE name # <<>> /\ Head(name) = Head(pat) /\ fnmatch(Tail(name), Tail(pat))

(***************************************************************************)
(* urllib.parse on the URLs of the model: scheme "://" netloc path.        *)
(***************************************************************************)
WellKnown == ".well-known/terraform.json"

\* Characters that cannot be part of a URL scheme.
NotSchemeChar == {"/", ":", WellKnown}

\* Schemes urljoin resolves relative references for (urllib.parse.uses_relative).
uses_relative == {"http", "https"}

\* urlparse(url): the scheme before the first ":", the netloc between "//" and the
\* next "/", and the rest as the path.
urlparse(url) ==
    LET i == find(url, ":", 1)
        hasScheme == i > 1 /\ \A k \in 1..(i - 1) : url[k] \notin NotSchemeChar
        scheme == IF hasScheme THEN SubSeq(url, 1, i - 1) ELSE <<>>
        rest == IF hasScheme THEN SubSeq(url, i + 1, Len(url)) ELSE url
        hasNetloc == startswith(rest, <<"/", "/">>)
        j == find(rest, "/", 3)
        netloc == IF ~hasNetloc THEN <<>>
                  ELSE IF j = 0 THEN SubSeq(rest, 3, Len(rest))
                  ELSE SubSeq(rest, 3, j - 1)
        path == IF ~hasNetloc THEN rest
                ELSE IF j = 0 THEN <<>>
                ELSE SubSeq(rest, j, Len(rest))
    IN  [scheme |-> scheme, netloc |-> netloc, path |-> path]

\* Position of the last "/" of s, 0 when there is none.
RECURSIVE rfind(_, _)
rfind(s, i) ==
    IF i = 0 THEN 0
    ELSE IF s[i] = "/" THEN i
    ELSE rfind(s, i - 1)

\* urljoin(base, url) for a base with a scheme of uses_relative (the model has no
\* "." or ".." path segments, queries or fragments).
urljoin(base, url) ==
    LET b == urlparse(base)
        u == urlparse(url)
        bdir == SubSeq(b.path, 1, rfind(b.path, Len(b.path)))
    IN  IF base = <<>> THEN url
        ELSE IF url = <<>> THEN base
        ELSE IF u.scheme # <<>> /\ u.scheme # b.scheme THEN url
        ELSE IF b.scheme \notin {<<s>> : s \in uses_relative} THEN url
        ELSE IF u.netloc # <<>>
            THEN b.scheme \o <<":", "/", "/">> \o u.netloc \o u.path
        ELSE IF startswith(u.path, <<"/">>)
            THEN b.scheme \o <<":", "/", "/">> \o b.netloc \o u.path
        ELSE b.scheme \o <<":", "/", "/">> \o b.netloc
                 \o (IF bdir = <<>> THEN <<"/">> ELSE bdir) \o u.path

\* remote.get_downloader(url=...) followed by downloader.run() can only succeed for
\* an absolute http(s) URL with a host.
Fetchable(url) ==
    /\ urlparse(url).scheme \in {<<s>> : s \in uses_relative}
    /\ urlparse(url).netloc # <<>>

(***************************************************************************)
(* The values the model draws the remote's configuration and the           *)
(* registry's answers from.                                                *)
(***************************************************************************)
AddrA == <<"a", "/", "c", "/", "x">>

AddrB == <<"b", "/", "c", "/", "x">>

\* An include entry that is not of the form namespace/name/system.
Malformed == <<"a", "/", "c">>

IncludeSpecs == {AddrA, AddrB, Malformed}

ExcludePatterns == {<<"a", "/", "*">>, <<"?", "/", "c", "/", "x">>}

BaseUrl == <<"https", ":", "/", "/", "h", "/", "m", "/">>

DiscoveryUrl == <<"https", ":", "/", "/", "h", "/", "p", "/", WellKnown>>

Urls == {None, Some(<<>>), Some(BaseUrl), Some(DiscoveryUrl)}

Policies == {"immediate", "on_demand", "streamed"}

V1 == "1.0.0"

V2 == "1.1.0"

\* A version entry without a "version" key.
NoVer == ""

\* The download location of a module archive.
Location == <<"g">>

\* All sequences over S of length at most n.
RECURSIVE SeqsUpTo(_, _)
SeqsUpTo(S, n) ==
    IF n = 0 THEN {<<>>}
    ELSE LET shorter == SeqsUpTo(S, n - 1)
         IN  shorter \cup {Append(q, x) : q \in {r \in shorter : Len(r) = n - 1}, x \in S}

Remotes ==
    [url : Urls,
     includes : {None} \cup {Some(l) : l \in SeqsUpTo(IncludeSpecs, MaxIncludes)},
     excludes : {None} \cup {Some(l) : l \in SeqsUpTo(ExcludePatterns, MaxExcludes)},
     policy : Policies]

\* Answers to a request: st is "fail" (the download or the JSON parsing raised) or
\* "ok"; "unset" marks a request the registry has not been asked yet.
Unset == [st |-> "unset", body |-> <<>>]

Failure == [st |-> "fail", body |-> <<>>]

Ok(body) == [st |-> "ok", body |-> body]

\* Discovery documents: the body is the option of the value under "modules.v1".
DiscResponses ==
    {Failure, Ok(None), Ok(Some(<<>>)), Ok(Some(<<"/", "m", "/">>)), Ok(Some(<<"m", "/">>)),
     Ok(Some(BaseUrl))}

\* Versions listings: the body is the "modules" list, each module its "versions" list.
ListingResponses ==
    {Failure, Ok(<<>>), Ok(<< <<V1, NoVer, V2>> >>)}

\* The location a module archive is moved to by the registry.
Moved == <<"k">>

\* The sha256 of the bytes served at Location, and a value that differs from it.
ArchiveSha == "d"

WrongSha == "e"

\* Download descriptors: the body is empty without a "location", else it holds the
\* location, followed by the value under "shasum" when the descriptor has one (the
\* registry advertises a shasum for version 1.1.0 of AddrB only).
DescriptorResponses(spec, version) ==
    {Failure, Ok(None), Ok(Some(Location))}
        \cup (IF spec = AddrB /\ version = V2 THEN {Ok(<<Location, WrongSha>>)} ELSE {})

RegistryAddrs == {s \in IncludeSpecs : Len(split(s)) = 3}

Versions == {V1, V2}

EmptyRegistry ==
    [disc |-> Unset,
     listing |-> [s \in RegistryAddrs |-> Unset],
     descriptor |-> [k \in RegistryAddrs \X Versions |-> Unset]]

(***************************************************************************)
(* State.                                                                  *)
(***************************************************************************)
VARIABLES
    remote,             \* the TofuRemote: url, includes, excludes, policy
    registry,           \* the remote registry's answers, as far as it was asked
    repo,               \* the repository: latest version number and its content
    saved,              \* the content units of the database
    providers,          \* the Provider units of the repository's latest version
    publication,        \* the last call of publish() and the publication it made
    pc,                 \* position of the sync task
    status,             \* state of the task: idle, running, completed, failed
    error,              \* what made the task fail
    mirror,             \* the mirror argument of the running sync
    deferred_download,  \* TofuFirstStage.deferred_download
    registry_base_url,  \* run(): the discovered API base
    modules_to_sync,    \* run(): the parsed includes
    idx,                \* run(): position in modules_to_sync
    versions,           \* _sync_module(): the versions list being walked
    vidx,               \* _sync_module(): position in versions
    emitted,            \* the DeclarativeContent put by the first stage
    puts,               \* the calls of put() of the first stage, in order
    downloaded,         \* the DeclarativeContent whose artifact the run downloaded
    progress,           \* the ProgressReport: total and done
    requests,           \* the requests the run has issued
    base_content,       \* content of the version the running sync started from
    syncs,              \* number of syncs dispatched
    remoteChanged,      \* the registry changed since the last dispatch
    changes,            \* number of changes of the registry
    last,               \* outcome and include list of the sync before the running one
    match_result,       \* the last call of _is_excluded() and its result
    tasks               \* the tasks dispatched by the viewsets, in dispatch order

vars == <<remote, registry, repo, saved, providers, publication, pc, status, error,
          mirror, deferred_download, registry_base_url, modules_to_sync, idx,
          versions, vidx, emitted, puts,
          downloaded, progress, requests, base_content, syncs, remoteChanged, changes,
          last, match_result, tasks>>

runVars == <<deferred_download, registry_base_url, modules_to_sync, idx, versions,
             vidx, emitted, puts, progress, requests>>

NoLast ==
    [valid |-> FALSE, mirror |-> FALSE, version |-> 0, content |-> {}, first |-> FALSE,
     modules |-> <<>>]

NoCall == [called |-> FALSE, module_spec |-> <<>>, excluded |-> FALSE]

NoPublication ==
    [called |-> FALSE, complete |-> TRUE, number |-> 0, content |-> {}, made |-> FALSE,
     published_artifacts |-> {}]

\* The state after the creation of a repository and of a remote drawn from R.
InitWith(R) ==
    /\ remote \in R
    /\ registry = EmptyRegistry
    /\ repo = [version |-> 0, content |-> {}]
    /\ saved = {}
    /\ providers = {}
    /\ publication = NoPublication
    /\ pc = "idle"
    /\ status = "idle"
    /\ error = "none"
    /\ mirror = FALSE
    /\ deferred_download = FALSE
    /\ registry_base_url = <<>>
    /\ modules_to_sync = <<>>
    /\ idx = 0
    /\ versions = <<>>
    /\ vidx = 0
    /\ emitted = {}
    /\ puts = <<>>
    /\ downloaded = {}
    /\ progress = [total |-> 0, done |-> 0]
    /\ requests = {}
    /\ base_content = {}
    /\ syncs = 0
    /\ remoteChanged = FALSE
    /\ changes = 0
    /\ last = NoLast
    /\ match_result = NoCall
    /\ tasks = <<>>

Init == InitWith(Remotes)

(***************************************************************************)
(* TofuFirstStage: the helpers of run().                                   *)
(***************************************************************************)
\* Variant of UrlMissing: only an unset URL is rejected.
UrlMissingOnlyNone(r) == r.url = None

\* synchronize(): `not remote.url`.
UrlMissing(r) == Falsy(r.url)

\* Variant of DeferredDownload: only the on_demand policy defers the downloads.
DeferredOnlyOnDemand(policy) == policy = "on_demand"

\* synchronize(): `remote.policy != Remote.IMMEDIATE`.
DeferredDownload(policy) == policy # "immediate"

\* Variant of IsDiscoveryUrl: the discovery document is asked for under every URL.
IsDiscoveryUrlAlways(url) == TRUE

\* _discover_registry_endpoint(): whether the URL names a discovery document.
IsDiscoveryUrl(url) ==
    endswith(url, <<"/", WellKnown>>) \/ endswith(url, <<WellKnown>>)

\* Variant of _discover_registry_endpoint: a document without "modules.v1", or one
\* that cannot be fetched, falls back to the configured URL.
discover_with_fallback(url, resp) ==
    IF IsDiscoveryUrl(url) /\ Fetchable(url) /\ resp.st = "ok" /\ ~Falsy(resp.body)
    THEN LET modules_endpoint == resp.body[1]
             parsed == urlparse(url)
             base == parsed.scheme \o <<":", "/", "/">> \o parsed.netloc
         IN  IF startswith(modules_endpoint, <<"/">>)
             THEN [raised |-> FALSE, value |-> urljoin(base, modules_endpoint)]
             ELSE [raised |-> FALSE, value |-> modules_endpoint]
    ELSE [raised |-> FALSE, value |-> url]

\* _discover_registry_endpoint() on the answer resp to the discovery request:
\* raised tells whether it raised, value is the base URL it returned.
_discover_registry_endpoint(url, resp) ==
    IF IsDiscoveryUrl(url)
    THEN IF ~Fetchable(url) \/ resp.st # "ok"
            THEN [raised |-> TRUE, value |-> <<>>]
         ELSE IF Falsy(resp.body)
            THEN [raised |-> TRUE, value |-> <<>>]
         ELSE LET modules_endpoint == resp.body[1]
                  parsed == urlparse(url)
                  base == parsed.scheme \o <<":", "/", "/">> \o parsed.netloc
              IN  IF startswith(modules_endpoint, <<"/">>)
                  THEN [raised |-> FALSE, value |-> urljoin(base, modules_endpoint)]
                  ELSE [raised |-> FALSE, value |-> modules_endpoint]
    ELSE [raised |-> FALSE, value |-> url]

\* Variant of _parse_includes: an empty or unset list selects a default module.
parse_includes_with_default(r) == IF Falsy(r.includes) THEN <<AddrA>> ELSE r.includes[1]

\* _parse_includes()
_parse_includes(r) == OrEmpty(r.includes)

\* _is_excluded(): the loop over the exclude patterns, from position i on.
RECURSIVE is_excluded_from(_, _, _)
is_excluded_from(excludes, module_spec, i) ==
    IF i > Len(excludes) THEN FALSE
    ELSE IF fnmatch(module_spec, excludes[i]) THEN TRUE
    ELSE is_excluded_from(excludes, module_spec, i + 1)

\* Variant of _is_excluded: the arguments of fnmatch are swapped.
RECURSIVE is_excluded_swapped_from(_, _, _)
is_excluded_swapped_from(excludes, module_spec, i) ==
    IF i > Len(excludes) THEN FALSE
    ELSE IF fnmatch(excludes[i], module_spec) THEN TRUE
    ELSE is_excluded_swapped_from(excludes, module_spec, i + 1)

is_excluded_swapped(r, module_spec) ==
    is_excluded_swapped_from(OrEmpty(r.excludes), module_spec, 1)

\* Variant of _is_excluded: the loop returns after the first pattern.
is_excluded_first_only(r, module_spec) ==
    /\ OrEmpty(r.excludes) # <<>>
    /\ fnmatch(module_spec, OrEmpty(r.excludes)[1])

\* Variant of _is_excluded: the exclude list is not consulted.
is_excluded_never(r, module_spec) == FALSE

_is_excluded(r, module_spec) == is_excluded_from(OrEmpty(r.excludes), module_spec, 1)

\* Variant of CaughtInRun: only the malformed specification is caught.
CaughtOnlyValueError(exc) == exc = "ValueError"

\* Variant of CaughtInRun: the loop of run() catches nothing.
CaughtNothingInRun(exc) == FALSE

\* The except clauses of the loop of run(): which exceptions of one address are
\* caught there (the others leave run() and fail the task).
CaughtInRun(exc) == exc \in {"ValueError", "Exception"}

\* Variant of CaughtInSyncModule: the loop over the versions catches nothing.
CaughtNothingInSyncModule(exc) == FALSE

\* The except clause of the loop of _sync_module(): exceptions of one version.
CaughtInSyncModule(exc) == exc \in {"ValueError", "Exception"}

\* _sync_module(): the URL of the versions listing of an address.
RECURSIVE rstrip(_)
rstrip(s) ==
    IF s # <<>> /\ s[Len(s)] = "/" THEN rstrip(SubSeq(s, 1, Len(s) - 1)) ELSE s

versions_url(base, spec) ==
    urljoin(rstrip(base) \o <<"/">>, spec \o <<"/", "versions">>)

\* _sync_module_version(): the URL of the download descriptor of a version.
download_url(base, spec, version) ==
    urljoin(rstrip(base) \o <<"/">>, spec \o <<"/", version, "/", "download">>)

\* Variant of NextVersion: the walk ends at the first entry without a version.
NextVersionBreaks(vs, i) ==
    IF i > Len(vs) THEN i
    ELSE IF vs[i] # NoVer THEN i
    ELSE Len(vs) + 1

\* _sync_module(): first position at or after i of an entry that has a version.
RECURSIVE NextVersion(_, _)
NextVersion(vs, i) ==
    IF i > Len(vs) THEN i
    ELSE IF vs[i] # NoVer THEN i
    ELSE NextVersion(vs, i + 1)

\* _sync_module_version(): the relative path of the artifact of a version.
relative_path(namespace, name, system, version) ==
    namespace \o <<"/">> \o name \o <<"/">> \o system
        \o <<"/", version, "/", "module.tar.gz">>

\* Variant of Declared: the name and the system of the address change places.
DeclaredSwapped(spec, version, location, deferred) ==
    LET parts == split(spec)
    IN  [namespace |-> parts[1], name |-> parts[3], system |-> parts[2],
         version |-> version, download_url |-> location,
         relative_path |-> relative_path(parts[1], parts[3], parts[2], version),
         deferred_download |-> deferred]

\* _sync_module_version(): the DeclarativeContent of a version, that is the content
\* unit with the URL, the relative path and the deferred_download flag of its
\* DeclarativeArtifact.
Declared(spec, version, location, deferred) ==
    LET parts == split(spec)
    IN  [namespace |-> parts[1], name |-> parts[2], system |-> parts[3],
         version |-> version, download_url |-> location,
         relative_path |-> relative_path(parts[1], parts[2], parts[3], version),
         deferred_download |-> deferred]

\* Variant of Key: the download URL is part of the identity of a unit.
KeyWithUrl(dc) ==
    [namespace |-> dc.namespace, name |-> dc.name, system |-> dc.system,
     version |-> dc.version, download_url |-> dc.download_url]

\* The identity of a content unit in a repository version.
Key(dc) ==
    [namespace |-> dc.namespace, name |-> dc.name, system |-> dc.system,
     version |-> dc.version]

Keys(dcs) == {Key(dc) : dc \in dcs}

\* The content unit of a DeclarativeContent: the fields of TofuContent.
Unit(dc) ==
    [namespace |-> dc.namespace, name |-> dc.name, system |-> dc.system,
     version |-> dc.version, download_url |-> dc.download_url]

\* The content stages of DeclarativeVersion on one unit: a unit whose key is in the
\* table of content units is the unit of the table, another one is inserted.
Save(table, unit) ==
    IF Key(unit) \in Keys(table) THEN table ELSE table \cup {unit}

\* The content stages on the calls of put() from position i on, in their order, for
\* the DeclarativeContent that passed the artifact stages.
RECURSIVE SaveAll(_, _, _, _)
SaveAll(table, ps, i, passed) ==
    IF i > Len(ps) THEN table
    ELSE SaveAll(IF ps[i] \in passed THEN Save(table, Unit(ps[i])) ELSE table,
                 ps, i + 1, passed)

\* The units of the table that the run declared.
Fetched(table, dcs) == {u \in table : Key(u) \in Keys(dcs)}

\* Variant of Associate: the mirror argument is ignored.
AssociateAlwaysAdditive(m, previous, fetched) == previous \cup fetched

\* Variant of Associate: mirror mode keeps only the units that were not present.
AssociateOnlyNew(m, previous, fetched) ==
    IF m THEN fetched \ previous ELSE previous \cup fetched

\* Variant of Associate: a mirror sync that fetched nothing keeps what was present.
AssociateMirrorNonEmpty(m, previous, fetched) ==
    IF m /\ fetched # {} THEN fetched ELSE previous \cup fetched

\* DeclarativeVersion(..., mirror=mirror): the content of the new version.
Associate(m, previous, fetched) ==
    IF m THEN fetched ELSE previous \cup fetched

\* Variant of NewVersionNumber: every sync keeps its new version.
NewVersionAlways(number, previous, content) == number + 1

\* repository.new_version(): a version that changes nothing is not kept.
NewVersionNumber(number, previous, content) ==
    IF content = previous THEN number ELSE number + 1

\* The artifact stages of DeclarativeVersion: the artifacts that are not declared
\* with deferred_download are downloaded during the run.
ToDownload(dcs) == {dc \in dcs : ~dc.deferred_download}

\* The artifact stages fail when one of these downloads fails; got is the set of
\* those that succeeded.
ArtifactsFail(dcs, got) == got # ToDownload(dcs)

(***************************************************************************)
(* Actions.                                                                *)
(***************************************************************************)
\* dispatch(tasks.synchronize, ...): the task starts with the mirror argument m.
dispatch_synchronize(m) ==
    /\ UNCHANGED match_result
    /\ pc' = "synchronize"
    /\ status' = "running"
    /\ error' = "none"
    /\ mirror' = m
    /\ syncs' = syncs + 1
    /\ last' = [valid |-> status = "completed" /\ ~remoteChanged,
                mirror |-> mirror,
                version |-> repo.version,
                content |-> repo.content,
                first |-> syncs = 1,
                modules |-> modules_to_sync]
    /\ remoteChanged' = FALSE
    /\ deferred_download' = FALSE
    /\ registry_base_url' = <<>>
    /\ modules_to_sync' = <<>>
    /\ idx' = 0
    /\ versions' = <<>>
    /\ vidx' = 0
    /\ emitted' = {}
    /\ puts' = <<>>
    /\ downloaded' = {}
    /\ progress' = [total |-> 0, done |-> 0]
    /\ requests' = {}
    /\ UNCHANGED <<remote, saved, providers, publication, tasks>>
    /\ UNCHANGED <<registry, repo, base_content, changes>>

\* TofuRepositoryViewSet.sync() on a repository that was never synced.
sync(m) ==
    /\ pc = "idle"
    /\ dispatch_synchronize(m)

\* TofuRepositoryViewSet.sync() on a repository whose previous sync task has ended.
resync(m) ==
    /\ pc = "done"
    /\ syncs < MaxSyncs
    /\ dispatch_synchronize(m)

\* synchronize(): the check of the URL, the download policy and the start of
\* DeclarativeVersion.create() on a new version of the repository.
synchronize ==
    /\ UNCHANGED match_result
    /\ pc = "synchronize"
    /\ IF UrlMissing(remote)
       THEN /\ status' = "failed"
            /\ error' = "config"
            /\ pc' = "done"
            /\ UNCHANGED <<deferred_download, base_content>>
       ELSE /\ deferred_download' = DeferredDownload(remote.policy)
            /\ base_content' = repo.content
            /\ pc' = "discover"
            /\ UNCHANGED <<status, error>>
    /\ UNCHANGED <<remote, saved, providers, publication, tasks>>
    /\ UNCHANGED <<registry, repo, mirror, registry_base_url, modules_to_sync,
                   idx, versions, vidx, emitted, puts, downloaded, progress, requests,
                   syncs, remoteChanged, changes, last>>

\* run(), up to the loop: discovery of the API base and parsing of the includes.
run_discover ==
    /\ UNCHANGED match_result
    /\ pc = "discover"
    /\ \E resp \in DiscResponses :
        LET url == remote.url[1]
            asked == IsDiscoveryUrl(url)
            found == _discover_registry_endpoint(url, resp)
            includes == _parse_includes(remote)
        IN  /\ IF ~asked THEN resp = Failure /\ UNCHANGED registry
               ELSE IF registry.disc = Unset
                    THEN registry' = [registry EXCEPT !.disc = resp]
                    ELSE resp = registry.disc /\ UNCHANGED registry
            /\ requests' = IF asked THEN requests \cup {<<"discovery">>} ELSE requests
            /\ IF found.raised
               THEN /\ status' = "failed"
                    /\ error' = "discovery"
                    /\ pc' = "done"
                    /\ UNCHANGED <<registry_base_url, modules_to_sync, idx, progress>>
               ELSE /\ registry_base_url' = found.value
                    /\ modules_to_sync' = includes
                    /\ IF includes = <<>>
                       THEN pc' = "pipeline" /\ UNCHANGED <<idx, progress>>
                       ELSE /\ pc' = "address"
                            /\ idx' = 1
                            /\ progress' = [total |-> Len(includes), done |-> 0]
                    /\ UNCHANGED <<status, error>>
    /\ UNCHANGED <<remote, saved, providers, publication, tasks>>
    /\ UNCHANGED <<repo, mirror, deferred_download, versions, vidx, emitted,
                   puts, downloaded, base_content, syncs, remoteChanged, changes, last>>

\* Variant of NextAddress: the loop ends after the entry instead of going on.
NextAddressBreaks ==
    /\ progress' = [progress EXCEPT !.done = @ + 1]
    /\ idx' = idx + 1
    /\ pc' = "pipeline"
    /\ UNCHANGED <<status, error>>

\* run(): progress_bar.increment() and the move to the next entry of modules_to_sync.
NextAddress ==
    /\ progress' = [progress EXCEPT !.done = @ + 1]
    /\ idx' = idx + 1
    /\ pc' = IF idx + 1 > Len(modules_to_sync) THEN "pipeline" ELSE "address"
    /\ UNCHANGED <<status, error>>

\* Variant of AddressRaised: an entry that raised is left without being counted.
AddressRaisedUncounted(exc) ==
    IF CaughtInRun(exc)
    THEN /\ idx' = idx + 1
         /\ pc' = IF idx + 1 > Len(modules_to_sync) THEN "pipeline" ELSE "address"
         /\ UNCHANGED <<progress, status, error>>
    ELSE /\ status' = "failed"
         /\ error' = "address"
         /\ pc' = "done"
         /\ UNCHANGED <<progress, idx>>

\* Variant of AddressRaised: an entry that raised ends the loop over the entries.
AddressRaisedEndsLoop(exc) ==
    IF CaughtInRun(exc)
    THEN /\ progress' = [progress EXCEPT !.done = @ + 1]
         /\ idx' = idx + 1
         /\ pc' = "pipeline"
         /\ UNCHANGED <<status, error>>
    ELSE /\ status' = "failed"
         /\ error' = "address"
         /\ pc' = "done"
         /\ UNCHANGED <<progress, idx>>

\* run(): an exception of kind exc raised while handling the current entry.
AddressRaised(exc) ==
    IF CaughtInRun(exc)
    THEN NextAddress
    ELSE /\ status' = "failed"
         /\ error' = "address"
         /\ pc' = "done"
         /\ UNCHANGED <<progress, idx>>

\* run(): one entry of modules_to_sync, up to the versions listing of _sync_module().
run_address ==
    /\ UNCHANGED match_result
    /\ pc = "address"
    /\ LET module_spec == modules_to_sync[idx]
           url == versions_url(registry_base_url, module_spec)
       IN  IF Len(split(module_spec)) # 3
           THEN /\ AddressRaised("ValueError")
                /\ UNCHANGED <<registry, requests, versions, vidx>>
           ELSE IF _is_excluded(remote, module_spec)
           THEN /\ NextAddress
                /\ UNCHANGED <<registry, requests, versions, vidx>>
           ELSE \E resp \in ListingResponses :
                /\ IF ~Fetchable(url) THEN resp = Failure /\ UNCHANGED registry
                   ELSE IF registry.listing[module_spec] = Unset
                        THEN registry' = [registry EXCEPT !.listing[module_spec] = resp]
                        ELSE resp = registry.listing[module_spec] /\ UNCHANGED registry
                /\ requests' = requests \cup {<<"versions", module_spec>>}
                /\ IF resp.st # "ok"
                   THEN AddressRaised("Exception") /\ UNCHANGED <<versions, vidx>>
                   ELSE IF resp.body = <<>>
                   THEN NextAddress /\ UNCHANGED <<versions, vidx>>
                   ELSE IF NextVersion(resp.body[1], 1) > Len(resp.body[1])
                   THEN NextAddress /\ UNCHANGED <<versions, vidx>>
                   ELSE /\ versions' = resp.body[1]
                        /\ vidx' = NextVersion(resp.body[1], 1)
                        /\ pc' = "version"
                        /\ UNCHANGED <<status, error, progress, idx>>
    /\ UNCHANGED <<remote, saved, providers, publication, tasks>>
    /\ UNCHANGED <<repo, mirror, deferred_download, registry_base_url,
                   modules_to_sync, emitted, puts, downloaded, base_content, syncs,
                   remoteChanged, changes, last>>

\* Variant of NextInModule: _sync_module() returns after the first version it handled.
NextInModuleReturns == NextAddress /\ UNCHANGED <<versions, vidx>>

\* Variant of NextInModule: the progress report is incremented for every version.
NextInModuleCounts ==
    LET nxt == NextVersion(versions, vidx + 1)
    IN  IF nxt > Len(versions)
        THEN NextAddress /\ UNCHANGED <<versions, vidx>>
        ELSE /\ vidx' = nxt
             /\ progress' = [progress EXCEPT !.done = @ + 1]
             /\ UNCHANGED <<versions, status, error, idx, pc>>

\* _sync_module(): the move to the next entry of the versions list that has a
\* version, and the return to run() after the last one.
NextInModule ==
    LET nxt == NextVersion(versions, vidx + 1)
    IN  IF nxt > Len(versions)
        THEN NextAddress /\ UNCHANGED <<versions, vidx>>
        ELSE /\ vidx' = nxt
             /\ UNCHANGED <<versions, status, error, progress, idx, pc>>

\* _sync_module(): an exception of kind exc raised by _sync_module_version().
VersionRaised(exc) ==
    IF CaughtInSyncModule(exc)
    THEN NextInModule
    ELSE AddressRaised(exc) /\ UNCHANGED <<versions, vidx>>

\* _sync_module_version() for one version of the current address.
run_version ==
    /\ UNCHANGED match_result
    /\ pc = "version"
    /\ LET module_spec == modules_to_sync[idx]
           version == versions[vidx]
           url == download_url(registry_base_url, module_spec, version)
           known == registry.descriptor[<<module_spec, version>>]
       IN  \E resp \in DescriptorResponses(module_spec, version) \cup {known} :
            /\ IF ~Fetchable(url) THEN resp = Failure /\ UNCHANGED registry
               ELSE IF known = Unset
                    THEN /\ resp # Unset
                         /\ registry' =
                              [registry EXCEPT
                                 !.descriptor[<<module_spec, version>>] = resp]
                    ELSE resp = known /\ UNCHANGED registry
            /\ requests' = requests \cup {<<"download", module_spec, version>>}
            /\ IF resp.st # "ok"
               THEN VersionRaised("Exception") /\ UNCHANGED <<emitted, puts>>
               ELSE IF Falsy(resp.body)
               THEN NextInModule /\ UNCHANGED <<emitted, puts>>
               ELSE LET dc == Declared(module_spec, version, resp.body[1],
                                       deferred_download)
                    IN  /\ emitted' = emitted \cup {dc}
                        /\ puts' = Append(puts, dc)
                        /\ NextInModule
    /\ UNCHANGED <<remote, saved, providers, publication, tasks>>
    /\ UNCHANGED <<repo, mirror, deferred_download, registry_base_url,
                   modules_to_sync, downloaded, base_content, syncs, remoteChanged,
                   changes, last>>

\* DeclarativeVersion.create() after the first stage has returned: the artifact
\* stages, the association of the content and the end of the new version.
create_finish ==
    /\ UNCHANGED match_result
    /\ pc = "pipeline"
    /\ pc' = "done"
    /\ \E got \in SUBSET ToDownload(emitted) :
        /\ downloaded' = got
        /\ IF ArtifactsFail(emitted, got)
           THEN /\ status' = "failed"
                /\ error' = "artifact"
                /\ \E passed \in SUBSET got : saved' = SaveAll(saved, puts, 1, passed)
                /\ UNCHANGED <<repo, providers>>
           ELSE LET table == SaveAll(saved, puts, 1, emitted)
                    content == Associate(mirror, repo.content, Fetched(table, emitted))
                    others == Associate(mirror, providers, {})
                IN  /\ status' = "completed"
                    /\ saved' = table
                    /\ providers' = others
                    /\ repo' = [version |-> NewVersionNumber(repo.version,
                                                             repo.content \cup providers,
                                                             content \cup others),
                                content |-> content]
                    /\ UNCHANGED error
    /\ UNCHANGED <<remote, registry, publication, mirror, base_content, syncs,
                   remoteChanged, changes, last, tasks>>
    /\ UNCHANGED runVars

\* The registry changes between two syncs: it withdraws an address it served, whose
\* versions listing fails from then on.
RegistryChanges ==
    /\ UNCHANGED match_result
    /\ pc = "done"
    /\ syncs < MaxSyncs
    /\ changes < MaxChanges
    /\ \E a \in RegistryAddrs :
        /\ registry.listing[a].st = "ok"
        /\ registry.listing[a].body # <<>>
        /\ registry' = [registry EXCEPT !.listing[a] = Failure]
    /\ remoteChanged' = TRUE
    /\ changes' = changes + 1
    /\ UNCHANGED <<remote, saved, providers, publication, tasks>>
    /\ UNCHANGED <<repo, pc, status, error, mirror, downloaded, base_content,
                   syncs, last>>
    /\ UNCHANGED runVars

\* The registry changes between two syncs: it moves the archive of a version it
\* served, whose descriptor names the new location from then on.
RegistryMoves ==
    /\ UNCHANGED match_result
    /\ pc = "done"
    /\ syncs < MaxSyncs
    /\ changes < MaxChanges
    /\ \E k \in RegistryAddrs \X Versions :
        /\ registry.descriptor[k].st = "ok"
        /\ ~Falsy(registry.descriptor[k].body)
        /\ registry.descriptor[k].body[1] = Location
        /\ registry' = [registry EXCEPT !.descriptor[k] = Ok(Some(Moved))]
    /\ remoteChanged' = TRUE
    /\ changes' = changes + 1
    /\ UNCHANGED <<remote, saved, providers, publication, tasks>>
    /\ UNCHANGED <<repo, pc, status, error, mirror, downloaded, base_content,
                   syncs, last>>
    /\ UNCHANGED runVars

Next ==
    \/ \E m \in BOOLEAN : sync(m)
    \/ synchronize
    \/ run_discover
    \/ run_address
    \/ run_version
    \/ create_finish

\* One sync of a new repository.
Spec == Init /\ [][Next]_vars

\* The same sync, for the properties of the requests and the records of a run.
SpecStage == Init /\ [][Next]_vars

\* Repeated syncs of a repository from a registry that may change in between.
ResyncRemotes ==
    [url : {Some(BaseUrl)},
     includes : {None, Some(<<AddrB>>), Some(<<AddrB, AddrB>>), Some(<<AddrA, AddrB>>),
                 Some(<<Malformed, AddrA>>)},
     excludes : {None, Some(<< <<"a", "/", "*">> >>)},
     policy : Policies]

InitResync == InitWith(ResyncRemotes)

NextResync ==
    \/ Next
    \/ \E m \in BOOLEAN : resync(m)
    \/ RegistryChanges
    \/ RegistryMoves

SpecResync == InitResync /\ [][NextResync]_vars

(***************************************************************************)
(* Syncs of a repository whose remote is given another include list in     *)
(* between.                                                                *)
(***************************************************************************)
\* The include lists the remote is created with and updated to.
OrderIncludes ==
    {<<AddrB, AddrA>>, <<AddrA, Malformed, AddrB>>, <<Malformed, AddrB, AddrA>>}

OrderRemotes ==
    [url : {Some(BaseUrl)},
     includes : {Some(l) : l \in OrderIncludes},
     excludes : {None},
     policy : {"immediate", "on_demand"}]

\* TofuRemoteViewSet: an update of the remote that replaces its include list, between
\* two sync tasks.
remote_update(includes) ==
    /\ pc = "done"
    /\ syncs < MaxSyncs
    /\ changes < MaxChanges
    /\ remote.includes # Some(includes)
    /\ remote' = [remote EXCEPT !.includes = Some(includes)]
    /\ changes' = changes + 1
    /\ UNCHANGED <<registry, repo, saved, providers, publication, pc, status, error,
                   mirror, downloaded, base_content, syncs, remoteChanged, last,
                   match_result, tasks>>
    /\ UNCHANGED runVars

InitOrder == InitWith(OrderRemotes)

NextOrder ==
    \/ Next
    \/ \E m \in BOOLEAN : resync(m)
    \/ \E includes \in OrderIncludes : remote_update(includes)

SpecOrder == InitOrder /\ [][NextOrder]_vars

(***************************************************************************)
(* _is_excluded() as a function of the remote and of the address.          *)
(***************************************************************************)
MatchPatterns ==
    {<<"a", "/", "*">>, <<"?", "/", "c", "/", "x">>, <<"b", "/", "c", "/", "x">>,
     <<"[", "!", "a", "]", "/", "*">>, <<"a", "/", "c">>, <<"*", "/", "c">>}

MatchIncludes == {None, Some(<<AddrA>>), Some(<<AddrB, AddrA>>)}

MatchRemotes ==
    [url : {Some(BaseUrl)},
     includes : MatchIncludes,
     excludes : {None} \cup {Some(l) : l \in SeqsUpTo(MatchPatterns, MaxPatterns)},
     policy : {"immediate"}]

InitMatch == InitWith(MatchRemotes)

\* A call of _is_excluded(module_spec) on the remote.
is_excluded_call ==
    /\ \E module_spec \in IncludeSpecs :
        match_result' = [called |-> TRUE, module_spec |-> module_spec,
                         excluded |-> _is_excluded(remote, module_spec)]
    /\ UNCHANGED <<remote, saved, providers, publication, tasks>>
    /\ UNCHANGED <<registry, repo, pc, status, error, mirror, downloaded,
                   base_content, syncs, remoteChanged, changes, last>>
    /\ UNCHANGED runVars

NextMatch == is_excluded_call

SpecMatch == InitMatch /\ [][NextMatch]_vars

(***************************************************************************)
(* Publishing (app/tasks/publishing.py) and the Provider units that the    *)
(* content API creates (app/serializers.py).                               *)
(***************************************************************************)
\* The fields of the Provider units posted to the content API; os and arch are free
\* text (CharField).
ProviderData ==
    {[namespace |-> <<"a">>, type |-> <<"t">>, version |-> V1, os |-> target[1],
      arch |-> target[2], filename |-> <<"f">>] :
        target \in {<< <<"l">>, <<"m">> >>, << <<"w">>, <<"m">> >>,
                    << <<"l", "_", "x">>, <<"m">> >>, << <<"l">>, <<"x", "_", "m">> >>}}

\* ProviderSerializer.deferred_validate(): the data with the relative path of the
\* artifact.
deferred_validate(data) ==
    [namespace |-> data.namespace, type |-> data.type, version |-> data.version,
     os |-> data.os, arch |-> data.arch, filename |-> data.filename,
     relative_path |-> data.namespace \o <<"/">> \o data.type \o <<"/", data.version, "/">>
                          \o data.os \o <<"_">> \o data.arch \o <<"/">> \o data.filename]

\* The unit is a Provider (the units of a sync are TofuContent).
IsProvider(unit) == "type" \in DOMAIN unit

\* publish(): the PublishedArtifact rows of a publication of the content, one for
\* each Provider of the version, under the relative path of its ContentArtifact.
PublishedArtifacts(content) ==
    {[relative_path |-> c.relative_path, content |-> c] :
        c \in {unit \in content : IsProvider(unit)}}

\* publish(repository_version_pk) on the version with that number and content;
\* complete tells whether the version was complete.
publish(number, complete, content) ==
    /\ publication' = [called |-> TRUE, complete |-> complete, number |-> number,
                       content |-> content, made |-> TRUE,
                       published_artifacts |-> PublishedArtifacts(content)]
    /\ UNCHANGED <<remote, registry, repo, saved, providers, pc, status, error, mirror,
                   downloaded, base_content, syncs, remoteChanged, changes, last,
                   match_result, tasks>>
    /\ UNCHANGED runVars

\* TofuPublicationViewSet.create(): the publish task on the latest version of the
\* repository; it reserves the repository, so it runs when no sync task does.
publication_create ==
    /\ pc \in {"idle", "done"}
    /\ publish(repo.version, TRUE, repo.content \cup providers)

\* publish() called with the key of the version that a running sync is writing. The
\* Provider units of that version are those of the version it started from, until a
\* mirror sync removes them in its last stage; the units the sync has associated so
\* far are TofuContent, which publish() does not read, and are left out.
publish_incomplete ==
    /\ pc \in {"discover", "address", "version", "pipeline"}
    /\ \E seen \in {providers} \cup (IF mirror /\ pc = "pipeline" THEN {{}} ELSE {}) :
        publish(repo.version + 1, FALSE, repo.content \cup seen)

\* ModifyRepositoryActionMixin.modify() with add_content_units naming a Provider
\* that was created through the content API; the task reserves the repository.
modify(data) ==
    /\ pc \in {"idle", "done"}
    /\ deferred_validate(data) \notin providers
    /\ providers' = providers \cup {deferred_validate(data)}
    /\ repo' = [repo EXCEPT !.version = NewVersionNumber(@, providers, providers')]
    /\ UNCHANGED <<remote, registry, saved, publication, pc, status, error, mirror,
                   downloaded, base_content, syncs, remoteChanged, changes, last,
                   match_result, tasks>>
    /\ UNCHANGED runVars

PublishRemotes ==
    [url : {Some(BaseUrl)},
     includes : {None, Some(<<AddrB>>)},
     excludes : {None},
     policy : {"immediate", "on_demand"}]

InitPublish == InitWith(PublishRemotes)

NextPublish ==
    \/ Next
    \/ \E data \in ProviderData : modify(data)
    \/ publication_create
    \/ publish_incomplete

\* One sync of a repository, changes of its content through the API and publications.
SpecPublish == InitPublish /\ [][NextPublish]_vars

(***************************************************************************)
(* The tasks that the viewsets dispatch (app/viewsets.py) and a dispatcher *)
(* that runs the tasks sharing a reserved resource one at a time.          *)
(***************************************************************************)
Repositories == {"repository1", "repository2"}

RemoteNames == {"remote1", "remote2"}

\* Variant of SyncResources: a sync task reserves its remote only.
SyncResourcesRemoteOnly(repository, rem) == {rem}

\* TofuRepositoryViewSet.sync(): the resources in the call of dispatch().
SyncResources(repository, rem) == {repository, rem}

\* TofuPublicationViewSet.create(): the resources in the call of dispatch().
PublishResources(repository) == {repository}

\* dispatch(): a task of the given function on the given resources joins the tasks.
dispatch(name, repository, rem, resources) ==
    /\ Len(tasks) < MaxTasks
    /\ tasks' = Append(tasks, [name |-> name, repository |-> repository, remote |-> rem,
                               resources |-> resources, state |-> "waiting"])
    /\ UNCHANGED <<remote, registry, repo, saved, providers, publication, pc, status,
                   error, mirror, downloaded, base_content, syncs, remoteChanged,
                   changes, last, match_result>>
    /\ UNCHANGED runVars

\* TofuRepositoryViewSet.sync() on a repository with a remote.
repository_sync(repository, rem) ==
    dispatch("synchronize", repository, rem, SyncResources(repository, rem))

\* TofuPublicationViewSet.create() on a version of a repository.
publication_dispatch(repository) ==
    dispatch("publish", repository, "", PublishResources(repository))

\* The dispatcher starts a waiting task when no running task holds one of its
\* resources.
task_start(i) ==
    /\ tasks[i].state = "waiting"
    /\ \A j \in DOMAIN tasks :
        (j # i /\ tasks[j].state = "running") =>
            tasks[j].resources \cap tasks[i].resources = {}
    /\ tasks' = [tasks EXCEPT ![i].state = "running"]
    /\ UNCHANGED <<remote, registry, repo, saved, providers, publication, pc, status,
                   error, mirror, downloaded, base_content, syncs, remoteChanged,
                   changes, last, match_result>>
    /\ UNCHANGED runVars

\* A running task ends and releases its resources.
task_finish(i) ==
    /\ tasks[i].state = "running"
    /\ tasks' = [tasks EXCEPT ![i].state = "completed"]
    /\ UNCHANGED <<remote, registry, repo, saved, providers, publication, pc, status,
                   error, mirror, downloaded, base_content, syncs, remoteChanged,
                   changes, last, match_result>>
    /\ UNCHANGED runVars

InitTasks == InitWith({r \in PublishRemotes : r.includes = None /\ r.policy = "immediate"})

NextTasks ==
    \/ \E repository \in Repositories : \E rem \in RemoteNames :
        repository_sync(repository, rem)
    \/ \E repository \in Repositories : publication_dispatch(repository)
    \/ \E i \in DOMAIN tasks : task_start(i)
    \/ \E i \in DOMAIN tasks : task_finish(i)

\* Sync and publish tasks of two repositories and two remotes under the dispatcher.
SpecTasks == InitTasks /\ [][NextTasks]_vars

(***************************************************************************)
(* Vocabulary of the properties.                                           *)
(***************************************************************************)
\* The entries of the include list.
Included == {OrEmpty(remote.includes)[i] : i \in 1..Len(OrEmpty(remote.includes))}

\* Some exclude pattern glob-matches the address.
MatchesExclude(r, spec) ==
    \E i \in 1..Len(OrEmpty(r.excludes)) : fnmatch(spec, OrEmpty(r.excludes)[i])

WellFormed(spec) == Len(split(spec)) = 3

\* The versions the registry listed for an address.
Listed(spec) ==
    IF registry.listing[spec].st = "ok" /\ registry.listing[spec].body # <<>>
    THEN {v \in Versions :
            \E i \in 1..Len(registry.listing[spec].body[1]) :
                registry.listing[spec].body[1][i] = v}
    ELSE {}

\* Every request for the address was answered.
AddressSucceeded(spec) ==
    /\ registry.listing[spec].st = "ok"
    /\ \A v \in Listed(spec) : registry.descriptor[<<spec, v>>].st = "ok"

\* A request for the address failed.
AddressFailed(spec) ==
    \/ registry.listing[spec].st = "fail"
    \/ \E v \in Listed(spec) : registry.descriptor[<<spec, v>>].st = "fail"

\* The records of an address: its listed versions whose descriptor has a location.
RecordsOf(spec) ==
    LET parts == split(spec)
    IN  {[namespace |-> parts[1], name |-> parts[2], system |-> parts[3], version |-> v] :
            v \in {w \in Listed(spec) :
                     /\ registry.descriptor[<<spec, w>>].st = "ok"
                     /\ ~Falsy(registry.descriptor[<<spec, w>>].body)}}

\* The '/'-joined address of a record.
AddressOf(rec) == join3(rec.namespace, rec.name, rec.system)

FirstStageOver == pc = "pipeline" \/ (pc = "done" /\ error \in {"none", "artifact"})

(***************************************************************************)
(* Properties.                                                             *)
(***************************************************************************)
\* C1 - partial-failure policy: a failure while listing the versions or fetching the
\* descriptors of one address never fails the task (a failed task failed on the
\* configuration, the discovery or an artifact download), and once the loop is over
\* the emitted set holds the records of every included, non-excluded address whose
\* requests all succeeded.
C1_PartialFailure ==
    /\ status = "failed" => error \in {"config", "discovery", "artifact"}
    /\ (pc = "done" /\ error = "none") => status = "completed"
    /\ FirstStageOver =>
        \A spec \in Included :
            (WellFormed(spec) /\ ~MatchesExclude(remote, spec) /\ AddressSucceeded(spec))
                => RecordsOf(spec) \subseteq Keys(emitted)

\* A completed run in which one address failed and another one gave records.
C1_Witness ==
    /\ pc = "done"
    /\ status = "completed"
    /\ \E bad \in Included \cap RegistryAddrs, good \in Included \cap RegistryAddrs :
        /\ <<"versions", bad>> \in requests
        /\ AddressFailed(bad)
        /\ <<"versions", good>> \in requests
        /\ AddressSucceeded(good)
        /\ RecordsOf(good) # {}
        /\ RecordsOf(good) \subseteq Keys(emitted)

\* C2 - exclude precedence: no emitted record and no record of the repository has an
\* address that matches an exclude pattern, and a run all of whose well-formed
\* includes are excluded completes with no record.
C2_ExcludePrecedence ==
    LET excluded == {spec \in Included : MatchesExclude(remote, spec)}
    IN  /\ \A dc \in emitted : ~MatchesExclude(remote, AddressOf(dc))
        /\ \A rec \in repo.content : ~MatchesExclude(remote, AddressOf(rec))
        /\ \A spec \in excluded :
            /\ <<"versions", spec>> \notin requests
            /\ \A dc \in emitted : AddressOf(dc) # spec
        /\ (/\ pc = "done"
            /\ error \notin {"config", "discovery"}
            /\ \A spec \in Included : WellFormed(spec) => spec \in excluded)
                => (status = "completed" /\ emitted = {} /\ repo.content = {})

\* A completed run that skipped an excluded, well-formed include and emitted the
\* records of another one.
C2_Witness ==
    /\ pc = "done"
    /\ status = "completed"
    /\ emitted # {}
    /\ \E spec \in Included : WellFormed(spec) /\ MatchesExclude(remote, spec)

\* C3 - _is_excluded(address) is true exactly when some pattern of the exclude list
\* glob-matches the address, whatever the include list is, and never for an empty or
\* unset exclude list.
C3_IsExcluded ==
    match_result.called =>
        /\ match_result.excluded <=> MatchesExclude(remote, match_result.module_spec)
        /\ \A inc \in MatchIncludes :
            _is_excluded([remote EXCEPT !.includes = inc], match_result.module_spec)
                = match_result.excluded
        /\ Falsy(remote.excludes) => ~match_result.excluded

\* A call that is excluded by the second pattern only.
C3_Witness ==
    /\ match_result.called
    /\ match_result.excluded
    /\ Len(OrEmpty(remote.excludes)) = 2
    /\ ~fnmatch(match_result.module_spec, remote.excludes[1][1])
    /\ fnmatch(match_result.module_spec, remote.excludes[1][2])

\* C4 - a remote with an empty or unset URL: the task fails with the configuration
\* error as soon as it runs, with no request issued, no record emitted and the
\* repository left at its version.
C4_MissingUrl ==
    (Falsy(remote.url) /\ pc \notin {"idle", "synchronize"}) =>
        /\ pc = "done"
        /\ status = "failed"
        /\ error = "config"
        /\ requests = {}
        /\ emitted = {}
        /\ repo = [version |-> 0, content |-> {}]

C4_Witness ==
    /\ remote.url = Some(<<>>)
    /\ pc = "done"
    /\ error = "config"

\* C5 - a discovery URL whose document cannot be fetched or has no "modules.v1" key:
\* the task is failed, the discovery request is the only request, no record is
\* emitted and the repository is left at its version.
C5_DiscoveryFatal ==
    (/\ ~Falsy(remote.url)
     /\ IsDiscoveryUrl(remote.url[1])
     /\ \/ registry.disc.st = "fail"
        \/ registry.disc.st = "ok" /\ registry.disc.body = None) =>
        /\ pc = "done"
        /\ status = "failed"
        /\ error = "discovery"
        /\ requests = {<<"discovery">>}
        /\ emitted = {}
        /\ repo = [version |-> 0, content |-> {}]

C5_Witness ==
    /\ registry.disc = Ok(None)
    /\ pc = "done"
    /\ error = "discovery"
    /\ remote.includes # None
    /\ remote.includes[1] # <<>>

\* The discovery request was answered with a document that has an endpoint.
Discovered ==
    /\ ~Falsy(remote.url)
    /\ IsDiscoveryUrl(remote.url[1])
    /\ registry.disc.st = "ok"
    /\ ~Falsy(registry.disc.body)
    /\ pc \in {"address", "version", "pipeline", "done"}

\* Scheme and host of a URL.
Origin(url) == urlparse(url).scheme \o <<":", "/", "/">> \o urlparse(url).netloc

\* C6 - discovery resolution: a relative endpoint under "modules.v1" (one without a
\* scheme) is resolved against the scheme and host of the discovery URL, whatever
\* the path of the discovery URL is.
C6_DiscoveryResolution ==
    (Discovered /\ urlparse(registry.disc.body[1]).scheme = <<>>) =>
        registry_base_url = urljoin(Origin(remote.url[1]), registry.disc.body[1])

\* The discovery of a discovery URL fails.
DiscoveryFails ==
    /\ IsDiscoveryUrl(remote.url[1])
    /\ registry.disc.st = "fail" \/ Falsy(registry.disc.body)

C8_MergePolicy ==
    (pc = "done" /\ status = "completed") =>
        /\ mirror =>
            /\ Keys(repo.content) = Keys(emitted)
            /\ {u \in base_content : Key(u) \notin Keys(emitted)} \cap repo.content = {}
        /\ ~mirror =>
            /\ Keys(repo.content) = Keys(base_content) \cup Keys(emitted)
            /\ base_content \subseteq repo.content

\* A completed mirror sync that fetched records and removed a previous one.
C8_Witness ==
    /\ pc = "done"
    /\ status = "completed"
    /\ mirror
    /\ emitted # {}
    /\ Keys(base_content) \ Keys(emitted) # {}

\* C9 - idempotence: a sync that completes right after a completed sync in the same
\* mode, the registry, the URL, the includes and the excludes unchanged in between,
\* leaves the record set of the first.
C9_Idempotence ==
    (pc = "done" /\ status = "completed" /\ last.valid /\ last.mirror = mirror) =>
        repo.content = last.content

\* A second completed sync in the mode of the first one, with records.
C9_Witness ==
    /\ pc = "done"
    /\ status = "completed"
    /\ last.valid
    /\ last.mirror = mirror
    /\ mirror
    /\ repo.content # {}

NothingServed ==
    /\ registry.disc.st # "ok"
    /\ \A a \in RegistryAddrs : registry.listing[a].st # "ok"
    /\ \A k \in RegistryAddrs \X Versions : registry.descriptor[k].st # "ok"

\* C11 - a sync from a URL every request to which fails ends in a failed task with
\* an error, never in a completed one.
C11_InvalidUrl ==
    (pc = "done" /\ ~Falsy(remote.url) /\ requests # {} /\ NothingServed) =>
        (status = "failed" /\ error # "none")

\* C13 - an address whose versions listing has no entries gives no record and no
\* descriptor request, the task does not fail on it, and the loop goes on: once it is
\* over every included, well-formed, non-excluded address was asked for its versions
\* and every entry of the include list was counted.
C13_EmptyListing ==
    \A spec \in Included \cap RegistryAddrs :
        registry.listing[spec] = Ok(<<>>) =>
            /\ \A dc \in emitted : AddressOf(dc) # spec
            /\ \A v \in Versions : <<"download", spec, v>> \notin requests
            /\ error \notin {"address", "config", "discovery"}
            /\ pc = "done" => (status = "completed" \/ error = "artifact")
            /\ FirstStageOver =>
                /\ progress.done = progress.total
                /\ \A s \in Included :
                    (WellFormed(s) /\ ~MatchesExclude(remote, s)) =>
                        <<"versions", s>> \in requests

\* A completed run whose first address had an empty listing and whose second address
\* gave records.
C13_Witness ==
    /\ pc = "done"
    /\ status = "completed"
    /\ remote.includes = Some(<<AddrA, AddrB>>)
    /\ registry.listing[AddrA] = Ok(<<>>)
    /\ \E dc \in emitted : AddressOf(dc) = AddrB

\* C14 - a version whose download descriptor has no location gives no record, the
\* task does not fail on it, and the remaining versions and addresses are still
\* handled: once the loop is over every listed version of every handled address was
\* asked for its descriptor and every version with a location has its record.
C14_MissingLocation ==
    \A spec \in Included \cap RegistryAddrs :
        \A v \in Versions :
            registry.descriptor[<<spec, v>>] = Ok(None) =>
                /\ \A dc \in emitted : ~(AddressOf(dc) = spec /\ dc.version = v)
                /\ error \notin {"address", "config", "discovery"}
                /\ pc = "done" => (status = "completed" \/ error = "artifact")
                /\ FirstStageOver =>
                    /\ progress.done = progress.total
                    /\ \A s \in Included :
                        (WellFormed(s) /\ ~MatchesExclude(remote, s)) =>
                            /\ <<"versions", s>> \in requests
                            /\ \A w \in Listed(s) : <<"download", s, w>> \in requests
                            /\ RecordsOf(s) \subseteq Keys(emitted)

\* A completed run in which the first version of an address had no location and the
\* second one gave its record.
C14_Witness ==
    /\ pc = "done"
    /\ status = "completed"
    /\ \E spec \in Included \cap RegistryAddrs :
        /\ registry.descriptor[<<spec, V1>>] = Ok(None)
        /\ registry.descriptor[<<spec, V2>>] = Ok(Some(Location))
        /\ \E dc \in emitted : AddressOf(dc) = spec /\ dc.version = V2

\* C20 - progress: within a run the done counter never decreases and is never reset;
\* it grows by one exactly when the loop of run() leaves an entry of the include
\* list, whatever the number of versions handled in between, and the total is the
\* length of the include list.
C20_Progress ==
    [][(pc \in {"discover", "address", "version", "pipeline"}) =>
            /\ progress'.done >= progress.done
            /\ pc \in {"address", "version"} =>
                /\ progress.total = Len(modules_to_sync)
                /\ progress.done = idx - 1
                /\ progress'.total = progress.total
                /\ progress'.done - progress.done
                     = (IF pc' \in {"address", "version"} THEN idx'
                        ELSE Len(modules_to_sync) + 1)
                         - idx
            /\ pc = "pipeline" => progress' = progress]_vars

\* The loop has counted one address and emitted two records for it.
C20_Witness ==
    /\ pc = "address"
    /\ progress = [total |-> 2, done |-> 1]
    /\ Cardinality(emitted) = 2

\* The positions of the include list that hold the address.
EntriesOf(spec) ==
    {i \in 1..Len(OrEmpty(remote.includes)) : OrEmpty(remote.includes)[i] = spec}

\* The include list names the address and no exclude pattern matches it.
Selected(spec) == spec \in Included /\ WellFormed(spec) /\ ~MatchesExclude(remote, spec)

C16_DownloadPolicy ==
    (~Falsy(remote.url) /\ pc \notin {"idle", "synchronize"}) =>
        /\ deferred_download = (remote.policy \in {"on_demand", "streamed"})
        /\ \A dc \in emitted :
            dc.deferred_download = (remote.policy \in {"on_demand", "streamed"})
        /\ remote.policy \in {"on_demand", "streamed"} =>
            /\ downloaded = {}
            /\ error # "artifact"
            /\ (pc = "done" /\ error = "none") =>
                (status = "completed" /\ Keys(emitted) \subseteq Keys(repo.content))
        /\ (remote.policy = "immediate" /\ pc = "done" /\ status = "completed") =>
            downloaded = emitted

\* A completed streamed run that created records and downloaded nothing.
C16_Witness ==
    /\ remote.policy = "streamed"
    /\ pc = "done"
    /\ status = "completed"
    /\ repo.content # {}
    /\ downloaded = {}

\* The descriptor of the version advertises a shasum that is not the digest of the
\* bytes its location serves.
ShasumMismatch(spec, v) ==
    /\ registry.descriptor[<<spec, v>>].st = "ok"
    /\ Len(registry.descriptor[<<spec, v>>].body) = 2
    /\ registry.descriptor[<<spec, v>>].body[2] # ArchiveSha

\* C15 - digest verification: after a completed immediate run the repository holds no
\* record of a version whose advertised shasum differs from the digest of the
\* downloaded bytes.
C15_DigestVerification ==
    (remote.policy = "immediate" /\ pc = "done" /\ status = "completed") =>
        \A spec \in RegistryAddrs :
            \A v \in Versions :
                ShasumMismatch(spec, v) =>
                    \A rec \in repo.content : ~(AddressOf(rec) = spec /\ rec.version = v)

\* Two units are records of the same version of the same address.
SameRecord(u1, u2) ==
    /\ u1.namespace = u2.namespace
    /\ u1.name = u2.name
    /\ u1.system = u2.system
    /\ u1.version = u2.version

\* No two units of the table are records of the same version of the same address.
Unique(table) == \A u1 \in table : \A u2 \in table : SameRecord(u1, u2) => u1 = u2

\* A unit the run declared is the record of a unit of the table.
Redeclared(table) == {u \in table : \E dc \in emitted : SameRecord(u, dc)}

CanonicalPath(unit) ==
    IF IsProvider(unit)
    THEN unit.namespace \o <<"/">> \o unit.type \o <<"/", unit.version, "/">>
             \o unit.os \o <<"_">> \o unit.arch \o <<"/">> \o unit.filename
    ELSE unit.namespace \o <<"/">> \o unit.name \o <<"/">> \o unit.system
             \o <<"/", unit.version, "/", "module.tar.gz">>

\* C18 - publish: the publication of a complete version has, for every record of the
\* version, the records of a sync included, an entry under the canonical path of the
\* record that is bound to the record.
C18_Publish ==
    (publication.made /\ publication.complete) =>
        \A unit \in publication.content :
            \E pa \in publication.published_artifacts :
                /\ pa.relative_path = CanonicalPath(unit)
                /\ pa.content = unit

\* C19 - publish on a version that is still being written fails and creates no
\* publication.
C19_IncompleteSnapshot ==
    (publication.called /\ ~publication.complete) => ~publication.made

\* The URL ends with the discovery suffix.
EndsWithSuffix(url) == url # <<>> /\ url[Len(url)] = WellKnown

\* C23 - a URL that does not end with the discovery suffix is the API base as it is
\* and no discovery request is issued for it; the discovery request is issued exactly
\* for the URLs that end with the suffix.
C23_DirectBase ==
    (~Falsy(remote.url) /\ pc \in {"address", "version", "pipeline", "done"}) =>
        /\ <<"discovery">> \in requests <=> EndsWithSuffix(remote.url[1])
        /\ ~EndsWithSuffix(remote.url[1]) =>
            /\ registry.disc = Unset
            /\ registry_base_url = remote.url[1]
            /\ error # "discovery"

\* A completed run with records from a URL that is not a discovery document.
C23_Witness ==
    /\ pc = "done"
    /\ status = "completed"
    /\ remote.url = Some(BaseUrl)
    /\ emitted # {}
    /\ requests # {}
    /\ <<"discovery">> \notin requests

\* C24 - the progress counter never exceeds the total, and when run() has returned
\* from a non-empty include list the counter and the total are the number of entries
\* of the list, whichever branch handled each entry.
C24_ProgressTotal ==
    /\ progress.done <= progress.total
    /\ (FirstStageOver /\ ~Falsy(remote.includes)) =>
        /\ progress.total = Len(remote.includes[1])
        /\ progress.done = Len(remote.includes[1])

\* A completed run over a malformed entry and an address whose listing failed.
C24_Witness ==
    /\ pc = "done"
    /\ status = "completed"
    /\ remote.includes = Some(<<Malformed, AddrA>>)
    /\ Falsy(remote.excludes)
    /\ registry.listing[AddrA] = Failure
    /\ progress = [total |-> 2, done |-> 2]

\* The descriptor of the version was fetched and names a location.
HasLocation(spec, v) ==
    /\ <<"download", spec, v>> \in requests
    /\ registry.descriptor[<<spec, v>>].st = "ok"
    /\ ~Falsy(registry.descriptor[<<spec, v>>].body)

\* C26 - a version whose descriptor request fails does not stop its address: the task
\* does not fail on it, the record of every other version of the address whose
\* descriptor was fetched with a location is emitted, and once the loop is over every
\* listed version of the address was asked for its descriptor.
C26_VersionFailure ==
    \A spec \in Included \cap RegistryAddrs :
        \A v \in Versions :
            (<<"download", spec, v>> \in requests
                /\ registry.descriptor[<<spec, v>>].st = "fail") =>
                /\ error # "address"
                /\ \A w \in Versions \ {v} :
                    HasLocation(spec, w) =>
                        \E dc \in emitted : AddressOf(dc) = spec /\ dc.version = w
                /\ FirstStageOver =>
                    \A w \in Listed(spec) : <<"download", spec, w>> \in requests

\* A completed run in which the descriptor of the first version of an address failed
\* and the second version, asked for afterwards, gave its record.
C26_Witness ==
    /\ pc = "done"
    /\ status = "completed"
    /\ \E spec \in Included \cap RegistryAddrs :
        /\ <<"download", spec, V1>> \in requests
        /\ registry.descriptor[<<spec, V1>>] = Failure
        /\ HasLocation(spec, V2)
        /\ \E dc \in emitted : AddressOf(dc) = spec /\ dc.version = V2

\* C27 - every record the run emits has the address of an entry of the include list,
\* with exactly three parts and matched by no exclude pattern, and a non-empty
\* version that the versions listing of that address holds.
C27_EmittedRecords ==
    \A dc \in emitted :
        LET address == AddressOf(dc)
        IN  /\ address \in Included
            /\ Len(split(address)) = 3
            /\ ~MatchesExclude(remote, address)
            /\ dc.version # NoVer
            /\ <<"versions", address>> \in requests
            /\ dc.version \in Listed(address)

\* A completed run with records, a malformed entry in the include list and an
\* exclude pattern.
C27_Witness ==
    /\ pc = "done"
    /\ status = "completed"
    /\ Cardinality(emitted) = 2
    /\ Malformed \in Included
    /\ ~Falsy(remote.excludes)

\* C28 - an entry of the include list that an exclude pattern matches, or that is not
\* of the form namespace/name/system, is never asked for its versions or for a
\* descriptor; the task does not fail on it and the loop goes on: once it is over
\* every entry was counted and every other address was asked for its versions.
C28_NoRequestForSkipped ==
    \A spec \in Included :
        LET skipped == Len(split(spec)) # 3 \/ MatchesExclude(remote, spec)
        IN  /\ (\E q \in requests : Len(q) > 1 /\ q[2] = spec) => ~skipped
            /\ error = "address" => ~skipped
            /\ (FirstStageOver /\ progress.done # progress.total) => ~skipped
            /\ (FirstStageOver /\ skipped) =>
                \A s \in Included : Selected(s) => <<"versions", s>> \in requests

\* A completed run that skipped an excluded first entry and emitted the records of
\* the second one.
C28_Witness ==
    /\ pc = "done"
    /\ status = "completed"
    /\ remote.includes = Some(<<AddrA, AddrB>>)
    /\ MatchesExclude(remote, AddrA)
    /\ <<"versions", AddrA>> \notin requests
    /\ \E dc \in emitted : AddressOf(dc) = AddrB

FailedNow(a) ==
    /\ ~remoteChanged
    /\ <<"versions", a>> \in requests
    /\ registry.listing[a].st = "fail"

\* C25 - a mirror sync in which an address with records in the previous version fails
\* to list: the task does not fail on the address, and when it completes the new
\* version holds exactly the records fetched in the run, none of them of the failed
\* address, and is a new version of the repository.
C25_MirrorFailure ==
    \A a \in RegistryAddrs :
        (/\ mirror
         /\ pc = "done"
         /\ FailedNow(a)
         /\ \E u \in base_content : AddressOf(u) = a) =>
            /\ status = "completed" \/ error = "artifact"
            /\ status = "completed" =>
                /\ Keys(repo.content) = Keys(emitted)
                /\ \A u \in repo.content : AddressOf(u) # a
                /\ repo.version = last.version + 1

\* A completed mirror sync that lost the records of a withdrawn address and kept
\* those of another one.
C25_Witness ==
    /\ mirror
    /\ pc = "done"
    /\ status = "completed"
    /\ FailedNow(AddrA)
    /\ \E u \in base_content : AddressOf(u) = AddrA
    /\ repo.content # {}
    /\ \A u \in repo.content : AddressOf(u) = AddrB

\* The number of entries of the list s that are x.
Count(s, x) == Cardinality({i \in DOMAIN s : s[i] = x})

\* The list t holds the entries of the list s, each as many times, in some order.
IsPermutation(s, t) ==
    /\ Len(s) = Len(t)
    /\ \A x \in IncludeSpecs : Count(s, x) = Count(t, x)

\* C21 - two completed syncs of a repository from one registry, with the same url
\* and excludes and with include lists that are permutations of each other, end with
\* the same content records (the second sync not being a mirror sync after an
\* additive one that started from other content).
C21_OrderIndependence ==
    (/\ pc = "done"
     /\ status = "completed"
     /\ last.valid
     /\ last.modules # <<>>
     /\ IsPermutation(last.modules, modules_to_sync)
     /\ last.first \/ last.mirror \/ ~mirror) =>
        /\ repo.content = last.content
        /\ last.first \/ last.mirror => Keys(emitted) = Keys(last.content)

\* Two completed syncs with include lists in another order, the same records of two
\* addresses after both.
C21_Witness ==
    /\ pc = "done"
    /\ status = "completed"
    /\ last.valid
    /\ last.first
    /\ last.modules # modules_to_sync
    /\ IsPermutation(last.modules, modules_to_sync)
    /\ Malformed \in {modules_to_sync[i] : i \in DOMAIN modules_to_sync}
    /\ repo.content = last.content
    /\ \E u \in repo.content : AddressOf(u) = AddrA
    /\ \E u \in repo.content : AddressOf(u) = AddrB

\* The identity of a Provider unit (Provider.Meta.unique_together, one domain).
ProviderKey(p) == <<p.namespace, p.type, p.version, p.os, p.arch>>

\* The relative path of the archive of a module record.
ModulePath(u) == relative_path(u.namespace, u.name, u.system, u.version)

\* C29 - two records of the latest version with different identities have different
\* relative paths: Provider units under namespace/type/version/os_arch/filename,
\* module records under namespace/name/system/version/module.tar.gz.
C29_DistinctPaths ==
    /\ \A p1 \in providers : \A p2 \in providers :
        ProviderKey(p1) # ProviderKey(p2) => p1.relative_path # p2.relative_path
    /\ \A u1 \in repo.content : \A u2 \in repo.content :
        Key(u1) # Key(u2) => ModulePath(u1) # ModulePath(u2)

\* The tasks i and j are two tasks that run at the same time.
RunTogether(i, j) ==
    /\ i # j
    /\ tasks[i].state = "running"
    /\ tasks[j].state = "running"

====
